---------------------------- MODULE Spec2Model ----------------------------
(***************************************************************************)
(* State-machine model of the file-upload workflow of qinglong-bot:        *)
(*   src/src/util/session_manager.ts      the session store and its timer  *)
(*   src/src/util/file_processor.ts       the workflow handlers            *)
(*   src/src/handler/telegram_bot_client.ts  the text-message entry point  *)
(*                                                                         *)
(* Strings the code manipulates are sequences of one-character strings.    *)
(* A handler runs atomically up to an await on the Task Backend            *)
(* (uploadFile, createCronJob); there it is suspended, and a timer         *)
(* callback or another user's event may run before it resumes.  Events of  *)
(* one user are handled one after the other.  A message sent with          *)
(* context.reply may be rejected by the transport (an input of the         *)
(* action); a remote call may fail (an input of the resuming action).      *)
(***************************************************************************)
EXTENDS Integers, Sequences, FiniteSets, TLC

VARIABLES
    sessions,   \* the Map `sessions`: user id -> FileUploadSession
    timers,     \* pending setTimeout callbacks: [tid, uid]
    inflight,   \* user id -> completing handler suspended on a backend call
    shown,      \* user id -> the buttons the bot has sent the user so far
    events,     \* history: sessions created and button presses handled for them
    hist,       \* history: user id -> what happened to the user's session
    fate,       \* history: timer handle -> fate of the session it was armed for
    last        \* history: the step taken last, with its input and outcome

vars == <<sessions, timers, inflight, shown, events, hist, fate, last>>

---------------------------------------------------------------------------
(* Bounds of the model. *)

\* accepted files and button presses for sessions in one behaviour
MaxEvents == 5

\* characters in a received document's file name
MaxNameLen == 6

\* pieces of text a file content is put together from
MaxPieces == 6

Users == {1, 2}

---------------------------------------------------------------------------
(* Strings. *)

S_task == <<"t", "a", "s", "k", " ">>
S_dailyMidnight == <<"0", " ", "0", " ", "*", " ", "*", " ", "*">>

\* String.prototype.split('.')[0]: the prefix before the first '.'
RECURSIVE splitDotFirst(_)
splitDotFirst(s) ==
    IF s = <<>> \/ Head(s) = "." THEN <<>>
    ELSE <<Head(s)>> \o splitDotFirst(Tail(s))

\* String.prototype.split('.').pop(): the suffix after the last '.'
RECURSIVE splitDotLast(_)
splitDotLast(s) ==
    IF \A i \in 1..Len(s) : s[i] # "." THEN s
    ELSE splitDotLast(Tail(s))

toLowerCase(s) ==
    [i \in 1..Len(s) |->
        CASE s[i] = "J" -> "j"
          [] s[i] = "S" -> "s"
          [] s[i] = "P" -> "p"
          [] s[i] = "Y" -> "y"
          [] OTHER -> s[i]]

supportedExtensions ==
    { <<"j", "s">>, <<"p", "y">>, <<"s", "h">>, <<"t", "s">>, <<"m", "j", "s">> }

---------------------------------------------------------------------------
(* Text messages.  A text is a sequence of tokens; a token is whitespace,  *)
(* a brace, a "key": "value" member, or anything else (junk).              *)

WS == [t |-> "ws", k |-> "", v |-> <<>>]
LB == [t |-> "lbrace", k |-> "", v |-> <<>>]
RB == [t |-> "rbrace", k |-> "", v |-> <<>>]
JUNK == [t |-> "junk", k |-> "", v |-> <<>>]
KV(key, val) == [t |-> "kv", k |-> key, v |-> val]

TxtValidA ==
    <<LB, KV("name", <<"n">>), KV("command", <<"c">>), KV("schedule", <<"s">>), RB>>
TxtValidB ==
    <<WS, LB, KV("name", <<"m">>), WS, KV("command", <<"d">>),
      KV("schedule", <<"t">>), KV("extra", <<"x">>), RB, WS>>
TxtMissing == <<LB, KV("name", <<"x">>), RB>>
TxtEmpty ==
    <<LB, KV("name", <<"n">>), KV("command", <<>>), KV("schedule", <<"s">>), RB>>
TxtMalformed == <<LB, JUNK, RB>>
TxtPlain == <<JUNK>>

Texts == {TxtValidA, TxtValidB, TxtMissing, TxtEmpty, TxtMalformed, TxtPlain}

\* the texts that are a JSON object with non-empty name, command and
\* schedule, and those that are a JSON object without
CompleteTexts == {TxtValidA, TxtValidB}
IncompleteTexts == {TxtMissing, TxtEmpty}
\* the brace-delimited texts JSON.parse throws on
MalformedTexts == {TxtMalformed}

\* String.prototype.trim
RECURSIVE trimStart(_)
trimStart(txt) ==
    IF txt # <<>> /\ Head(txt).t = "ws" THEN trimStart(Tail(txt)) ELSE txt

RECURSIVE trimEnd(_)
trimEnd(txt) ==
    IF txt # <<>> /\ txt[Len(txt)].t = "ws"
    THEN trimEnd(SubSeq(txt, 1, Len(txt) - 1))
    ELSE txt

trim(txt) == trimEnd(trimStart(txt))

startsWithBrace(txt) == txt # <<>> /\ txt[1].t = "lbrace"
endsWithBrace(txt) == txt # <<>> /\ txt[Len(txt)].t = "rbrace"

\* file_processor.ts:399
IsJsonShaped(txt) == startsWithBrace(txt) /\ endsWithBrace(txt)

\* JSON.parse on a brace-delimited text: throws unless everything between
\* the braces is members and whitespace.
JSONParseThrows(txt) ==
    ~ ( /\ Len(txt) >= 2
        /\ txt[1].t = "lbrace"
        /\ txt[Len(txt)].t = "rbrace"
        /\ \A i \in 2..(Len(txt) - 1) : txt[i].t \in {"kv", "ws"} )

\* JSON.parse: the object of the members; a repeated key keeps its last value.
JSONParse(txt) ==
    LET members == {i \in 2..(Len(txt) - 1) : txt[i].t = "kv"}
        keys == {txt[i].k : i \in members}
        lastOf(key) ==
            CHOOSE i \in members :
                /\ txt[i].k = key
                /\ \A j \in members : txt[j].k = key => j <= i
    IN  [key \in keys |-> txt[lastOf(key)].v]

\* JavaScript truthiness of obj[key] for string-valued members
Truthy(obj, key) == key \in DOMAIN obj /\ obj[key] # <<>>

\* a variant of the check that looks at the name only
ParamsComplete_nameOnly(p) == Truthy(p, "name")

\* file_processor.ts:408 and :285
ParamsComplete(p) == Truthy(p, "name") /\ Truthy(p, "command") /\ Truthy(p, "schedule")

---------------------------------------------------------------------------
(* Session store: src/src/util/session_manager.ts *)

Stages == {"uploaded", "create_task", "modify_params", "confirm_params"}

\* timeoutId of a session that never armed a timer (undefined)
NoTimeout == 0

\* the characters of the class [0-9*/,-] that occur in the inputs
cronChars == {"0", "1", "2", "*", "/", ",", "-"}

\* [0-9*/,-]{1,} from position i, greedy: the position after the run
RECURSIVE runEnd(_, _)
runEnd(content, i) ==
    IF i <= Len(content) /\ content[i] \in cronChars
    THEN runEnd(content, i + 1) ELSE i

\* ([0-9*/,-]{1,} ){n} from position i: the position after it, 0 for no match
RECURSIVE groupsEnd(_, _, _)
groupsEnd(content, i, n) ==
    IF n = 0 THEN i
    ELSE LET e == runEnd(content, i)
         IN  IF e > i /\ e <= Len(content) /\ content[e] = " "
             THEN groupsEnd(content, e + 1, n - 1)
             ELSE 0

\* n groups and the closing ([0-9*/,-]){1,} from position i: the position
\* after the match, 0 for no match
matchEnd(content, i, n) ==
    LET g == groupsEnd(content, i, n)
        e == IF g = 0 THEN 0 ELSE runEnd(content, g)
    IN  IF g # 0 /\ e > g THEN e ELSE 0

\* at position i the quantifier {4,5} tries five groups, then four
matchEndAt(content, i) ==
    IF matchEnd(content, i, 5) # 0 THEN matchEnd(content, i, 5)
    ELSE matchEnd(content, i, 4)

\* content.match(cronRegex): match[0] of the leftmost match, << >> for null
cronRegexMatch(content) ==
    LET starts == {i \in 1..Len(content) : matchEndAt(content, i) # 0}
    IN  IF starts = {} THEN << >>
        ELSE LET i == CHOOSE j \in starts : \A k \in starts : j <= k
             IN  SubSeq(content, i, matchEndAt(content, i) - 1)

\* cronExpression.split(/\s+/).length
partsLength(cronExpression) ==
    1 + Cardinality({i \in 1..Len(cronExpression) : cronExpression[i] = " "})

\* a variant that keeps every part
sliceOneJoin_keepAll(cronExpression) == cronExpression

\* parts.slice(1).join(' ')
sliceOneJoin(cronExpression) ==
    LET sp == CHOOSE i \in 1..Len(cronExpression) :
                  /\ cronExpression[i] = " "
                  /\ \A k \in 1..(i - 1) : cronExpression[k] # " "
    IN  SubSeq(cronExpression, sp + 1, Len(cronExpression))

\* extractCronFromContent of the session manager that reads the schedule
\* from the file; << >> for null
extractCronFromContent(content) ==
    LET cronExpression == cronRegexMatch(content)
    IN  IF cronExpression = << >> THEN << >>
        ELSE IF partsLength(cronExpression) = 6 THEN sliceOneJoin(cronExpression)
        ELSE cronExpression

\* createSession of that session manager
createSession_fromContent(ss, userId, fileName, fileContent) ==
    LET cronFromContent == extractCronFromContent(fileContent)
        defaultSchedule == IF cronFromContent # << >> THEN cronFromContent
                           ELSE S_dailyMidnight
        session ==
            [ fileName |-> fileName,
              fileContent |-> fileContent,
              stage |-> "uploaded",
              defaultParams |->
                  [ name |-> splitDotFirst(fileName),
                    command |-> S_task \o fileName,
                    schedule |-> defaultSchedule ],
              modifiedParams |-> <<>>,
              timeoutId |-> NoTimeout ]
    IN  [u \in DOMAIN ss \cup {userId} |-> IF u = userId THEN session ELSE ss[u]]

\* createSession of src/util/session_manager.ts, the module file_processor.ts
\* imports
createSession(ss, userId, fileName, fileContent) ==
    LET session ==
            [ fileName |-> fileName,
              fileContent |-> fileContent,
              stage |-> "uploaded",
              defaultParams |->
                  [ name |-> splitDotFirst(fileName),
                    command |-> S_task \o fileName,
                    schedule |-> S_dailyMidnight ],
              modifiedParams |-> <<>>,
              timeoutId |-> NoTimeout ]
    IN  [u \in DOMAIN ss \cup {userId} |-> IF u = userId THEN session ELSE ss[u]]

hasSession(ss, userId) == userId \in DOMAIN ss

\* a variant that also copies a new candidate over defaultParams
objectAssign_overDefaults(session, updates) ==
    [f \in DOMAIN session |->
        IF f \in DOMAIN updates THEN updates[f]
        ELSE IF f = "defaultParams" /\ "modifiedParams" \in DOMAIN updates
        THEN updates["modifiedParams"][1]
        ELSE session[f]]

\* Object.assign(session, updates)
objectAssign(session, updates) ==
    [f \in DOMAIN session |-> IF f \in DOMAIN updates THEN updates[f] ELSE session[f]]

updateSession(ss, userId, updates) ==
    IF hasSession(ss, userId)
    THEN [ss EXCEPT ![userId] = objectAssign(ss[userId], updates)]
    ELSE ss

clearTimeout(ts, timeoutId) == {t \in ts : t.tid # timeoutId}

\* a variant that empties the map
mapDelete_everyUser(ss, userId) == << >>

\* sessions.delete(userId)
mapDelete(ss, userId) == [u \in DOMAIN ss \ {userId} |-> ss[u]]

\* a variant that clears the timer and keeps the entry
deleteSession_keepEntry(ss, ts, userId) ==
    [sessions |-> ss,
     timers |->
         IF userId \in DOMAIN ss /\ ss[userId].timeoutId # NoTimeout
         THEN clearTimeout(ts, ss[userId].timeoutId)
         ELSE ts]

\* a variant that leaves the session's timer pending
deleteSession_keepTimer(ss, ts, userId) ==
    [sessions |-> mapDelete(ss, userId), timers |-> ts]

\* the pair (sessions, timers) after deleteSession(userId)
deleteSession(ss, ts, userId) ==
    [ sessions |-> mapDelete(ss, userId),
      timers |->
          IF hasSession(ss, userId) /\ ss[userId].timeoutId # NoTimeout
          THEN clearTimeout(ts, ss[userId].timeoutId)
          ELSE ts ]

\* a variant that does not clear the timer armed before
setSessionTimeout_keepEarlier(ss, ts, userId, tid) ==
    IF userId \notin DOMAIN ss
    THEN [sessions |-> ss, timers |-> ts]
    ELSE [ sessions |-> [ss EXCEPT ![userId].timeoutId = tid],
           timers |-> ts \cup {[tid |-> tid, uid |-> userId]} ]

\* the pair (sessions, timers) after setSessionTimeout(userId, ms, callback),
\* setTimeout returning the handle tid; timers holds the handles and the
\* userId their callbacks close over
setSessionTimeout(ss, ts, userId, tid) ==
    IF ~ hasSession(ss, userId)
    THEN [sessions |-> ss, timers |-> ts]
    ELSE LET cleared ==
                 IF ss[userId].timeoutId # NoTimeout
                 THEN clearTimeout(ts, ss[userId].timeoutId)
                 ELSE ts
         IN  [ sessions |-> [ss EXCEPT ![userId].timeoutId = tid],
               timers |-> cleared \cup {[tid |-> tid, uid |-> userId]} ]

---------------------------------------------------------------------------
(* Inputs. *)

FilePy == [fileName |-> <<"d", ".", "p", "y">>, fileContent |-> <<"c", "1">>]
FileJs == [fileName |-> <<"e", ".", "J", "S">>, fileContent |-> <<"c", "2">>]
FileTxt == [fileName |-> <<"x", ".", "t", "x", "t">>, fileContent |-> <<"c", "3">>]
FileNoName == [fileName |-> <<>>, fileContent |-> <<"c", "4">>]

Files == {FilePy, FileJs, FileTxt, FileNoName}

\* the documents a user sends: each user has one script, and the two
\* documents no handler accepts (no handler compares the files of two users)
filesOf(u) == {IF u = 1 THEN FilePy ELSE FileJs, FileTxt, FileNoName}

\* callback_data of the inline buttons (the prefix the dispatcher tests)
Buttons ==
    { "create_task_", "upload_only_", "end_session_", "modify_params_yes",
      "modify_params_no", "confirm_params", "edit_params", "cancel_create" }

\* the inline keyboards of lines 70-80, 171-178 and 420-430; a button stays
\* in the chat, and can be pressed, after its session is gone
KeyboardUploaded == {"create_task_", "upload_only_", "end_session_"}
KeyboardModify == {"modify_params_yes", "modify_params_no"}
KeyboardConfirm == {"confirm_params", "edit_params", "cancel_create"}

\* the keyboard a handler sends with outcome out
keyboardOf(ev, out) ==
    CASE ev = "file" /\ out = "created" -> KeyboardUploaded
      [] ev = "create_task_" /\ out = "asked" -> KeyboardModify
      [] ev = "text" /\ out = "accepted" -> KeyboardConfirm
      [] OTHER -> {}

Completing == {"upload_only_", "modify_params_no", "confirm_params"}

---------------------------------------------------------------------------
(* Workflow handlers: src/src/util/file_processor.ts.  Each takes the      *)
(* program state st = [sessions, timers, inflight] and yields the state it  *)
(* leaves, with its outcome out.  replyOk: whether the                     *)
(* context.reply whose rejection changes the handler's course is           *)
(* delivered; the rejection of any other message changes no state.         *)

State == [sessions |-> sessions, timers |-> timers, inflight |-> inflight]

Result(st, out) ==
    [sessions |-> st.sessions, timers |-> st.timers, inflight |-> st.inflight,
     out |-> out]

\* the handle setTimeout returns: one that names no timer a session or the
\* timer queue still refers to
newTimeout(st) ==
    CHOOSE tid \in 1..(Cardinality(st.timers) + Cardinality(DOMAIN st.sessions) + 1) :
        /\ \A t \in st.timers : t.tid # tid
        /\ \A u \in DOMAIN st.sessions : st.sessions[u].timeoutId # tid

\* the handler of userId is suspended on a backend call; session is the
\* object it holds, params its local variable
suspend(fl, userId, handler, phase, session, params) ==
    [u \in DOMAIN fl \cup {userId} |->
        IF u = userId
        THEN [handler |-> handler, phase |-> phase, session |-> session,
              params |-> params]
        ELSE fl[u]]

resume(fl, userId) == [u \in DOMAIN fl \ {userId} |-> fl[u]]

\* the arguments of createCronJob(params.name, params.command, params.schedule)
cronJobArgs(p) ==
    [name |-> p["name"], command |-> p["command"], schedule |-> p["schedule"]]

handleFileUpload(st, userId, file, downloadOk) ==
    LET fileName == file.fileName
        fileExtension == toLowerCase(splitDotLast(fileName))
    IN  IF fileName = <<>>
        THEN Result(st, "no_name")
        ELSE IF fileExtension = <<>> \/ fileExtension \notin supportedExtensions
        THEN Result(st, "unsupported")
        ELSE IF ~ downloadOk
        THEN Result(st, "download_failed")
        ELSE Result([st EXCEPT !.sessions =
                        createSession(st.sessions, userId, fileName,
                                      file.fileContent)],
                    "created")

handleCreateTask(st, userId) ==
    Result([st EXCEPT !.sessions =
                updateSession(st.sessions, userId, [stage |-> "create_task"])],
           "asked")

\* up to the await on uploadFile(session.fileName, session.fileContent)
handleUploadOnly(st, userId, replyOk) ==
    IF ~ replyOk
    THEN Result(st, "send_failed")
    ELSE Result([st EXCEPT !.inflight =
                    suspend(st.inflight, userId, "upload_only_", "uploading",
                            st.sessions[userId], <<>>)],
                "uploading")

handleEndSession(st, userId) ==
    LET d == deleteSession(st.sessions, st.timers, userId) IN
    Result([st EXCEPT !.sessions = d.sessions, !.timers = d.timers], "ended")

\* updateSession, then the template message, then setSessionTimeout: a
\* rejected message throws before the timer is armed
handleModifyParamsYes(st, userId, replyOk) ==
    LET updated == updateSession(st.sessions, userId, [stage |-> "modify_params"])
        armed == setSessionTimeout(updated, st.timers, userId, newTimeout(st))
    IN  IF replyOk
        THEN Result([st EXCEPT !.sessions = armed.sessions,
                               !.timers = armed.timers],
                    "armed")
        ELSE Result([st EXCEPT !.sessions = updated], "send_failed")

\* up to the await on uploadFile.  createSession always sets defaultParams,
\* so the guard of line 244 never holds.
handleModifyParamsNo(st, userId, replyOk) ==
    IF ~ replyOk
    THEN Result(st, "send_failed")
    ELSE Result([st EXCEPT !.inflight =
                    suspend(st.inflight, userId, "modify_params_no", "uploading",
                            st.sessions[userId],
                            <<st.sessions[userId].defaultParams>>)],
                "uploading")

\* a variant that registers the job with defaultParams
handleConfirmParams_useDefaults(st, userId, replyOk) ==
    LET session == st.sessions[userId] IN
    IF session.modifiedParams = <<>>
    THEN Result(st, "no_params")
    ELSE IF ~ ParamsComplete(session.modifiedParams[1])
    THEN Result(st, "bad_params")
    ELSE IF ~ replyOk
    THEN Result(st, "send_failed")
    ELSE Result([st EXCEPT !.inflight =
                    suspend(st.inflight, userId, "confirm_params", "uploading",
                            session, <<session.defaultParams>>)],
                "uploading")

\* up to the await on uploadFile
handleConfirmParams(st, userId, replyOk) ==
    LET session == st.sessions[userId] IN
    IF session.modifiedParams = <<>>
    THEN Result(st, "no_params")
    ELSE IF ~ ParamsComplete(session.modifiedParams[1])
    THEN Result(st, "bad_params")
    ELSE IF ~ replyOk
    THEN Result(st, "send_failed")
    ELSE Result([st EXCEPT !.inflight =
                    suspend(st.inflight, userId, "confirm_params", "uploading",
                            session, <<session.modifiedParams[1]>>)],
                "uploading")

handleEditParams(st, userId) ==
    IF st.sessions[userId].modifiedParams = <<>>
    THEN Result(st, "no_params")
    ELSE Result([st EXCEPT !.sessions =
                    updateSession(st.sessions, userId, [stage |-> "modify_params"])],
                "template")

handleCancelCreate(st, userId) ==
    LET d == deleteSession(st.sessions, st.timers, userId) IN
    Result([st EXCEPT !.sessions = d.sessions, !.timers = d.timers], "cancelled")

\* the dispatch on callback data of lines 126-153
dispatch(st, userId, data, replyOk) ==
    CASE data = "create_task_" -> handleCreateTask(st, userId)
      [] data = "upload_only_" -> handleUploadOnly(st, userId, replyOk)
      [] data = "end_session_" -> handleEndSession(st, userId)
      [] data = "modify_params_yes" -> handleModifyParamsYes(st, userId, replyOk)
      [] data = "modify_params_no" -> handleModifyParamsNo(st, userId, replyOk)
      [] data = "confirm_params" -> handleConfirmParams(st, userId, replyOk)
      [] data = "edit_params" -> handleEditParams(st, userId)
      [] data = "cancel_create" -> handleCancelCreate(st, userId)
      [] OTHER -> Result(st, "unknown")

\* a variant that opens an empty session for a user who has none
handleCallbackQuery_openSession(st, userId, data, replyOk) ==
    IF ~ hasSession(st.sessions, userId)
    THEN Result([st EXCEPT !.sessions =
                    createSession(st.sessions, userId, <<"x">>, "")],
                "no_session")
    ELSE dispatch(st, userId, data, replyOk)

\* the session lookup of lines 118-124, then the dispatch
handleCallbackQuery(st, userId, data, replyOk) ==
    IF ~ hasSession(st.sessions, userId)
    THEN Result(st, "no_session")
    ELSE dispatch(st, userId, data, replyOk)

\* a variant that deletes the session as soon as uploadFile has returned
afterUpload_deleteEarly(st, userId, uploadOk, replyOk) ==
    LET d == deleteSession(st.sessions, st.timers, userId)
        idle == resume(st.inflight, userId)
    IN  IF ~ uploadOk
        THEN Result([st EXCEPT !.inflight = idle], "upload_failed")
        ELSE IF st.inflight[userId].handler = "upload_only_"
        THEN Result([st EXCEPT !.inflight = idle,
                               !.sessions = d.sessions, !.timers = d.timers],
                    "uploaded")
        ELSE IF ~ replyOk
        THEN Result([st EXCEPT !.inflight = idle], "send_failed")
        ELSE Result([st EXCEPT !.inflight[userId].phase = "registering",
                               !.sessions = d.sessions, !.timers = d.timers],
                    "registering")

\* a completing handler resumes after uploadFile returned (uploadOk) or threw
afterUpload(st, userId, uploadOk, replyOk) ==
    LET d == deleteSession(st.sessions, st.timers, userId)
        idle == resume(st.inflight, userId)
    IN  IF ~ uploadOk
        THEN Result([st EXCEPT !.inflight = idle], "upload_failed")
        ELSE IF st.inflight[userId].handler = "upload_only_"
        THEN Result([st EXCEPT !.inflight = idle,
                               !.sessions = d.sessions, !.timers = d.timers],
                    "uploaded")
        ELSE IF ~ replyOk
        THEN Result([st EXCEPT !.inflight = idle], "send_failed")
        ELSE Result([st EXCEPT !.inflight[userId].phase = "registering"],
                    "registering")

\* a completing handler resumes after createCronJob returned or threw
afterRegister(st, userId, registerOk) ==
    LET d == deleteSession(st.sessions, st.timers, userId)
        idle == resume(st.inflight, userId)
    IN  IF ~ registerOk
        THEN Result([st EXCEPT !.inflight = idle], "register_failed")
        ELSE Result([st EXCEPT !.inflight = idle,
                               !.sessions = d.sessions, !.timers = d.timers],
                    "created")

\* a variant that does not look at the stage
handleJsonParams_anyStage(st, userId, text, replyOk) ==
    LET trimmedText == trim(text)
        params == JSONParse(trimmedText)
    IN  IF ~ hasSession(st.sessions, userId)
        THEN Result(st, [ret |-> FALSE, why |-> "no_session"])
        ELSE IF ~ IsJsonShaped(trimmedText)
        THEN Result(st, [ret |-> FALSE, why |-> "not_json_shaped"])
        ELSE IF JSONParseThrows(trimmedText)
        THEN Result(st, [ret |-> FALSE, why |-> "parse_error"])
        ELSE IF ~ ParamsComplete(params)
        THEN Result(st, [ret |-> replyOk, why |-> "rejected"])
        ELSE Result([st EXCEPT !.sessions =
                        updateSession(st.sessions, userId,
                            [modifiedParams |-> <<params>>,
                             stage |-> "confirm_params"])],
                    [ret |-> replyOk, why |-> "accepted"])

\* handleJsonParams: out.ret is the boolean it returns to handleCommand; a
\* rejected context.reply throws into the catch of line 443, which returns
\* false
handleJsonParams(st, userId, text, replyOk) ==
    LET trimmedText == trim(text)
        params == JSONParse(trimmedText)
    IN  IF ~ hasSession(st.sessions, userId)
        THEN Result(st, [ret |-> FALSE, why |-> "no_session"])
        ELSE IF st.sessions[userId].stage # "modify_params"
        THEN Result(st, [ret |-> FALSE, why |-> "wrong_stage"])
        ELSE IF ~ IsJsonShaped(trimmedText)
        THEN Result(st, [ret |-> FALSE, why |-> "not_json_shaped"])
        ELSE IF JSONParseThrows(trimmedText)
        THEN Result(st, [ret |-> FALSE, why |-> "parse_error"])
        ELSE IF ~ ParamsComplete(params)
        THEN Result(st, [ret |-> replyOk, why |-> "rejected"])
        ELSE Result([st EXCEPT !.sessions =
                        updateSession(st.sessions, userId,
                            [modifiedParams |-> <<params>>,
                             stage |-> "confirm_params"])],
                    [ret |-> replyOk, why |-> "accepted"])

\* the callback setSessionTimeout passes to setTimeout, for the fired timer t:
\* deleteSession(userId), then the expiry notice
timeoutCallback(st, t) ==
    LET d == deleteSession(st.sessions, st.timers \ {t}, t.uid) IN
    Result([st EXCEPT !.sessions = d.sessions, !.timers = d.timers],
           IF hasSession(st.sessions, t.uid) THEN "deleted" ELSE "nothing_to_delete")

---------------------------------------------------------------------------
(* History bookkeeping (not program state). *)

\* path: the session's events as far as "file, create task, no" goes;
\* accepted: the JSON objects accepted, in order; uploads, registers: the backend
\* calls made for it (0, 1, or 2 for more than one); noticed: a timer
\* removed it and sent the expiry notice
NewHist ==
    [path |-> "F", accepted |-> <<>>, uploads |-> 0, registers |-> 0,
     noticed |-> FALSE]

pathAfter(path, ev) ==
    CASE path = "F" /\ ev = "create_task_" -> "FC"
      [] path = "FC" /\ ev = "modify_params_no" -> "FCN"
      [] OTHER -> "X"

oneMore(n) == IF n = 0 THEN 1 ELSE 2

\* the history of the users who still have a session or a suspended handler
keep(h, r) == [u \in DOMAIN h \cap (DOMAIN r.sessions \cup DOMAIN r.inflight) |-> h[u]]

\* the fate of the session each timer pending after a step of user u was
\* armed for: "live" while it is the user's session, then what removed it
\* (how: "replaced" by createSession, "ended" by a handler's deleteSession,
\* "expired" by a timer's), if the step removed it
fateAfter(r, u, how) ==
    [tid \in {t.tid : t \in r.timers} |->
        IF \A t \in timers : t.tid # tid THEN "live"
        ELSE IF fate[tid] = "live" /\ how # "none"
                /\ \E t \in timers : t.tid = tid /\ t.uid = u
        THEN how
        ELSE fate[tid]]

\* whether the step of user u removed (or replaced) the user's session
removed(r, u) == hasSession(sessions, u) /\ ~ hasSession(r.sessions, u)

\* where the handler of userId stands
phaseOf(userId) == IF userId \in DOMAIN inflight THEN inflight[userId].phase ELSE "idle"

stageOf(userId) == IF hasSession(sessions, userId) THEN sessions[userId].stage ELSE "none"

\* whether the timer the session of userId refers to is pending
armedFor(userId) ==
    /\ hasSession(sessions, userId)
    /\ \E t \in timers : t.tid = sessions[userId].timeoutId

\* ev: the event; uid: its user; pre, armed: the stage of the user's session
\* and whether its timer was pending when the event arrived; text: the text
\* the handler parsed; out: what the handler did; ret: what it returned, or
\* for a backend call whether the call succeeded
Step(ev, uid, text, out, ret) ==
    [ev |-> ev, uid |-> uid, pre |-> stageOf(uid), armed |-> armedFor(uid),
     text |-> text, out |-> out, ret |-> ret]

NoStep ==
    [ev |-> "none", uid |-> 0, pre |-> "none", armed |-> FALSE, text |-> <<>>,
     out |-> "none", ret |-> FALSE]

---------------------------------------------------------------------------
(* The state machine. *)

Init ==
    /\ sessions = << >>
    /\ timers = {}
    /\ inflight = << >>
    /\ shown = [u \in Users |-> {}]
    /\ events = 0
    /\ hist = << >>
    /\ fate = << >>
    /\ last = NoStep

Idle(u) == u \notin DOMAIN inflight

\* the program state after a handler
Apply(r) ==
    /\ sessions' = r.sessions
    /\ timers' = r.timers
    /\ inflight' = r.inflight

\* bot.on(message('document'), handleFileUpload).  The users being
\* interchangeable, the first file comes from user 1.
FileUpload(u, file, downloadOk) ==
    /\ Idle(u)
    /\ events < MaxEvents
    /\ events = 0 => u = 1
    /\ LET r == handleFileUpload(State, u, file, downloadOk) IN
       /\ Apply(r)
       /\ shown' = [shown EXCEPT ![u] = @ \cup keyboardOf("file", r.out)]
       /\ events' = IF r.out = "created" THEN events + 1 ELSE events
       /\ hist' = IF r.out = "created"
                  THEN [v \in DOMAIN hist \cup {u} |->
                           IF v = u THEN NewHist ELSE hist[v]]
                  ELSE hist
       /\ fate' = fateAfter(r, u, IF r.out = "created" THEN "replaced" ELSE "none")
       /\ last' = Step("file", u, <<>>, r.out, FALSE)

\* bot.on('callback_query', handleCallbackQuery)
CallbackQuery(u, data, replyOk) ==
    /\ Idle(u)
    /\ data \in shown[u]
    /\ hasSession(sessions, u) => events < MaxEvents
    /\ LET r == handleCallbackQuery(State, u, data, replyOk) IN
       /\ Apply(r)
       /\ shown' = [shown EXCEPT ![u] = @ \cup keyboardOf(data, r.out)]
       /\ events' = IF hasSession(sessions, u) THEN events + 1 ELSE events
       /\ hist' = keep(IF hasSession(sessions, u)
                       THEN [hist EXCEPT
                               ![u].path = pathAfter(@, data),
                               ![u].uploads =
                                   IF r.out = "uploading" THEN oneMore(@) ELSE @]
                       ELSE hist, r)
       /\ fate' = fateAfter(r, u, IF removed(r, u) THEN "ended" ELSE "none")
       /\ last' = Step(IF hasSession(sessions, u) THEN data ELSE "button", u,
                       <<>>, r.out, FALSE)

\* uploadFile settles and the suspended handler of u runs on
UploadReturn(u, uploadOk, replyOk) ==
    /\ ~ Idle(u)
    /\ inflight[u].phase = "uploading"
    /\ LET r == afterUpload(State, u, uploadOk, replyOk) IN
       /\ Apply(r)
       /\ hist' = keep([hist EXCEPT ![u].registers =
                           IF r.out = "registering" THEN oneMore(@) ELSE @], r)
       /\ fate' = fateAfter(r, u, IF removed(r, u) THEN "ended" ELSE "none")
       /\ last' = Step(inflight[u].handler, u, <<>>, r.out, uploadOk)
       /\ UNCHANGED <<shown, events>>

\* createCronJob settles and the suspended handler of u runs on
RegisterReturn(u, registerOk) ==
    /\ ~ Idle(u)
    /\ inflight[u].phase = "registering"
    /\ LET r == afterRegister(State, u, registerOk) IN
       /\ Apply(r)
       /\ hist' = keep(hist, r)
       /\ fate' = fateAfter(r, u, IF removed(r, u) THEN "ended" ELSE "none")
       /\ last' = Step(inflight[u].handler, u, <<>>, r.out, registerOk)
       /\ UNCHANGED <<shown, events>>

\* bot.on(message('text'), handleCommand): handleJsonParams first; when it
\* returns false the command processor answers, which touches no session
TextMessage(u, text, replyOk) ==
    /\ Idle(u)
    /\ LET r == handleJsonParams(State, u, text, replyOk) IN
       /\ Apply(r)
       /\ shown' = [shown EXCEPT ![u] = @ \cup
                        IF r.out.ret THEN keyboardOf("text", r.out.why) ELSE {}]
       /\ hist' = IF hasSession(sessions, u)
                  THEN [hist EXCEPT
                          ![u].path = pathAfter(@, "text"),
                          ![u].accepted =
                              IF r.out.why = "accepted"
                              THEN Append(@, JSONParse(trim(text))) ELSE @]
                  ELSE hist
       /\ fate' = fateAfter(r, u, "none")
       /\ last' = Step("text", u,
                       IF stageOf(u) = "modify_params" THEN text ELSE <<>>,
                       r.out.why, r.out.ret)
       /\ UNCHANGED events

\* a pending timer elapses and its callback runs
TimerFire(t) ==
    /\ t \in timers
    /\ LET r == timeoutCallback(State, t) IN
       /\ Apply(r)
       /\ hist' = keep(IF removed(r, t.uid)
                       THEN [hist EXCEPT ![t.uid].noticed = TRUE] ELSE hist, r)
       /\ fate' = fateAfter(r, t.uid, IF removed(r, t.uid) THEN "expired" ELSE "none")
       /\ last' = Step("expiry", t.uid, <<>>,
                       IF r.out = "deleted" /\ fate[t.tid] # "live"
                       THEN "deleted_other" ELSE r.out,
                       FALSE)
       /\ UNCHANGED <<shown, events>>

\* the buttons whose handler takes another course when a message is rejected
ReplyMatters == Completing \cup {"modify_params_yes"}

Next ==
    \/ \E u \in Users :
          \E file \in filesOf(u) :
              \E ok \in IF file \in {FilePy, FileJs} THEN BOOLEAN ELSE {TRUE} :
                  FileUpload(u, file, ok)
    \/ \E u \in Users, data \in Buttons :
          \E ok \in IF data \in ReplyMatters THEN BOOLEAN ELSE {TRUE} :
              CallbackQuery(u, data, ok)
    \/ \E u \in Users, ok1 \in BOOLEAN, ok2 \in BOOLEAN : UploadReturn(u, ok1, ok2)
    \/ \E u \in Users, ok \in BOOLEAN : RegisterReturn(u, ok)
    \/ \E u \in Users, text \in Texts :
          \E ok \in IF stageOf(u) = "modify_params" THEN BOOLEAN ELSE {TRUE} :
              TextMessage(u, text, ok)
    \/ \E t \in timers : TimerFire(t)

Spec == Init /\ [][Next]_vars

\* a timer that is pending elapses eventually (setTimeout)
FairSpec == Spec /\ WF_vars(\E t \in timers : TimerFire(t))

---------------------------------------------------------------------------
(* File intake on its own: handleFileUpload applied once to every file     *)
(* name of up to MaxNameLen characters, for a user with and without a      *)
(* session.                                                                *)

NameChars == {".", "p", "Y"}

\* what the downloaded file holds: no schedule; five fields; six fields (the
\* first one seconds); a comment with the default schedule and a command after
\* it; four fields only
ContentPlain == <<"c", "1">>
ContentFive == <<"1", " ", "*", "/", "2", " ", "*", " ", "*", " ", "*">>
ContentSix == <<"0", " ", "1", " ", "2", " ", "*", " ", "*", " ", "*">>
ContentComment ==
    <<"#", " ", "0", " ", "0", " ", "*", " ", "*", " ", "*", " ", "p", "y">>
ContentFour == <<"1", " ", "2", " ", "*", " ", "*">>

Contents == {ContentPlain, ContentFive, ContentSix, ContentComment, ContentFour}

FileNames == UNION {[1..k -> NameChars] : k \in 0..MaxNameLen}

\* the store before the document arrives: empty, or user 1 having sent d.py
\* and pressed "create task"
IntakeStores ==
    { << >>,
      updateSession(createSession(<< >>, 1, FilePy.fileName, FilePy.fileContent),
                    1, [stage |-> "create_task"]) }

\* a document named last.text is about to be handled; last.ret: whether its
\* download will succeed
IntakeInit ==
    /\ sessions \in IntakeStores
    /\ timers = {}
    /\ inflight = << >>
    /\ shown = [u \in Users |->
                  IF hasSession(sessions, u)
                  THEN KeyboardUploaded \cup KeyboardModify ELSE {}]
    /\ events = 2 * Cardinality(DOMAIN sessions)
    /\ hist = [u \in DOMAIN sessions |-> [NewHist EXCEPT !.path = "FC"]]
    /\ fate = << >>
    /\ \E name \in FileNames, downloadOk \in BOOLEAN :
          last = [ev |-> "document", uid |-> 1, pre |-> stageOf(1),
                  armed |-> FALSE, text |-> name, out |-> "none",
                  ret |-> downloadOk]

\* bot.on(message('document'), handleFileUpload) for that document
Intake ==
    /\ last.ev = "document"
    /\ \E content \in Contents :
       LET file == [fileName |-> last.text, fileContent |-> content]
           r == handleFileUpload(State, last.uid, file, last.ret)
       IN  /\ Apply(r)
           /\ shown' = [shown EXCEPT ![last.uid] = @ \cup keyboardOf("file", r.out)]
           /\ events' = IF r.out = "created" THEN events + 1 ELSE events
           /\ hist' = IF r.out = "created"
                      THEN [v \in DOMAIN hist \cup {last.uid} |->
                               IF v = last.uid THEN NewHist ELSE hist[v]]
                      ELSE hist
           /\ fate' = fate
           /\ last' = [last EXCEPT !.ev = "file", !.out = r.out]

IntakeSpec == IntakeInit /\ [][Intake]_vars

---------------------------------------------------------------------------
(* extractCronFromContent on its own, applied once to every text of up to  *)
(* MaxPieces pieces joined by single spaces.  An empty piece gives two     *)
(* spaces in a row or a space at an end of the text.                       *)

Pieces ==
    { <<"1">>, <<"*", "/", "2">>, <<"a">>, <<"a", "1">>, << >> }

RECURSIVE joinSpace(_)
joinSpace(ps) ==
    IF Len(ps) = 1 THEN ps[1]
    ELSE ps[1] \o <<" ">> \o joinSpace(Tail(ps))

CronTexts ==
    { joinSpace(ps) : ps \in UNION {[1..k -> Pieces] : k \in 1..MaxPieces} }

\* a text last.text is about to be searched
ExtractInit ==
    /\ sessions = << >>
    /\ timers = {}
    /\ inflight = << >>
    /\ shown = [u \in Users |-> {}]
    /\ events = 0
    /\ hist = << >>
    /\ fate = << >>
    /\ \E content \in CronTexts :
          last = [ev |-> "content", uid |-> 0, pre |-> "none", armed |-> FALSE,
                  text |-> content, out |-> << >>, ret |-> FALSE]

\* extractCronFromContent(content); last.ret: it returned a string, last.out
Extract ==
    /\ last.ev = "content"
    /\ LET cron == extractCronFromContent(last.text)
       IN  last' = [last EXCEPT !.ev = "cron", !.out = cron, !.ret = cron # << >>]
    /\ UNCHANGED <<sessions, timers, inflight, shown, events, hist, fate>>

ExtractSpec == ExtractInit /\ [][Extract]_vars

---------------------------------------------------------------------------
(* Properties. *)

\* C1: creating a session for a user who already has one cancels the old
\* session's armed expiry: no timer of a replaced session stays pending, and
\* a timer that fires removes only the session it was armed for.
C1_NoOrphanedExpiry ==
    /\ \A t \in timers : fate[t.tid] # "replaced"
    /\ last.ev = "expiry" => last.out = "deleted"

\* the timer of a replaced session has fired and deleted the newer session
C1_OldExpiryDeletedNewSession ==
    last.ev = "expiry" /\ last.out = "deleted_other" /\ last.pre = "uploaded"

\* C2: when the upload or the registration of a completing handler fails,
\* the handler returns with no session left for the user.
C2_FailureDeletesSession ==
    (last.ev \in Completing /\ last.out \in {"upload_failed", "register_failed"})
        => ~ hasSession(sessions, last.uid)

\* C3: in modify_params a text that is a JSON object with non-empty name,
\* command and schedule moves the session to confirm_params with
\* modifiedParams equal to the parsed object, and handleJsonParams returns
\* true (the message is consumed).
C3_CompleteJsonAccepted ==
    (last.ev = "text" /\ last.pre = "modify_params" /\ last.text \in CompleteTexts)
        => /\ stageOf(last.uid) = "confirm_params"
           /\ sessions[last.uid].modifiedParams = <<JSONParse(trim(last.text))>>
           /\ last.ret

\* C4: in modify_params a text that is a JSON object lacking a non-empty
\* name, command or schedule is rejected (the rejection message is sent and
\* handleJsonParams returns whether it was delivered); no session changes
\* (stage, modifiedParams and timeoutId stay) and no timer is armed or cleared.
C4_IncompleteJsonRejected ==
    [][ (last'.ev = "text" /\ last'.pre = "modify_params"
            /\ last'.text \in IncompleteTexts)
        => (last'.out = "rejected" /\ sessions' = sessions /\ timers' = timers)
      ]_vars

\* an incomplete object was rejected while the session's timer was pending
\* and a candidate from an earlier round was stored
C4_RejectedWhileArmed ==
    /\ last.ev = "text" /\ last.out = "rejected" /\ last.armed
    /\ armedFor(last.uid)
    /\ sessions[last.uid].stage = "modify_params"
    /\ sessions[last.uid].modifiedParams # <<>>

\* C5: after "yes (customize)" was handled for a user's session, either a
\* further event is handled or a timer of the user fires, deletes the session
\* and sends the expiry notice.  (Liveness, under FairSpec: a pending timer
\* fires.)
C5_SilenceAfterYesExpires ==
    \A u \in Users :
        (last.ev = "modify_params_yes" /\ last.uid = u)
            ~> \/ /\ last.ev = "expiry" /\ last.uid = u
                  /\ last.out \in {"deleted", "deleted_other"}
               \/ last.ev \notin {"modify_params_yes", "expiry"}

\* "yes (customize)" was handled, the timer armed, and the timer then deleted
\* the session in modify_params
C5_ExpiredAfterYes ==
    /\ last.ev = "expiry" /\ last.out = "deleted"
    /\ last.pre = "modify_params" /\ last.armed

\* C6: on the path file accepted, "create task", "no (use defaults)" the
\* upload and the registration are invoked once each, the registration with
\* the session's defaultParams, and once both were invoked and the handler
\* has returned no session exists for the user.
C6_DefaultPathCompletes ==
    \A u \in DOMAIN hist :
        hist[u].path = "FCN"
            => /\ hist[u].uploads <= 1 /\ hist[u].registers <= 1
               /\ phaseOf(u) = "registering"
                    => /\ hist[u].uploads = 1 /\ hist[u].registers = 1
                       /\ inflight[u].params = <<inflight[u].session.defaultParams>>
               /\ (phaseOf(u) = "idle" /\ hist[u].registers = 1)
                    => ~ hasSession(sessions, u)

\* C7: a completing handler registers the job only after its upload has
\* succeeded, "no" and "confirm" delete the session only when the
\* registration has returned, and the upload is of the session's fileName
\* and fileContent.
C7_UploadRegisterDelete ==
    [][ \A u \in Users :
          /\ (phaseOf(u)' = "registering" /\ phaseOf(u) # "registering")
                => (phaseOf(u) = "uploading" /\ last'.ret)
          /\ (/\ last'.uid = u
              /\ last'.ev \in {"modify_params_no", "confirm_params"}
              /\ hasSession(sessions, u) /\ ~ hasSession(sessions', u))
                => (phaseOf(u) = "registering" /\ last'.out = "created")
          /\ (phaseOf(u)' = "uploading" /\ phaseOf(u) # "uploading")
                => /\ hasSession(sessions, u)
                   /\ inflight'[u].session.fileName = sessions[u].fileName
                   /\ inflight'[u].session.fileContent = sessions[u].fileContent
      ]_vars

\* "confirm" or "no" has uploaded, registered and then deleted the session
C7_Completed ==
    /\ last.ev \in {"modify_params_no", "confirm_params"}
    /\ last.out = "created" /\ last.ret
    /\ ~ hasSession(sessions, last.uid)

\* C8: when "confirm" is pressed in confirm_params, the job is registered
\* with the session's modifiedParams, which are the JSON object accepted
\* last, whatever was accepted in earlier rounds.
C8_ConfirmUsesCandidate ==
    \A u \in DOMAIN inflight :
        (inflight[u].handler = "confirm_params"
            /\ inflight[u].session.stage = "confirm_params")
            => /\ hist[u].accepted # <<>>
               /\ inflight[u].params = <<hist[u].accepted[Len(hist[u].accepted)]>>
               /\ inflight[u].params = inflight[u].session.modifiedParams

\* "confirm" is registering the second object accepted, after an edit round,
\* and it differs from the first and from defaultParams
C8_ConfirmAfterEdit ==
    \E u \in DOMAIN inflight :
        /\ inflight[u].handler = "confirm_params"
        /\ inflight[u].session.stage = "confirm_params"
        /\ inflight[u].phase = "registering"
        /\ Len(hist[u].accepted) = 2
        /\ hist[u].accepted[1] # hist[u].accepted[2]
        /\ cronJobArgs(inflight[u].params[1])
              # cronJobArgs(inflight[u].session.defaultParams)

\* C9: once a complete JSON object has been accepted, the timer armed for
\* the edit step no longer deletes the session: a timer deletes the session
\* it was armed for only in stage modify_params.
C9_ExpiryOnlyWhileAwaitingJson ==
    (last.ev = "expiry" /\ last.out = "deleted") => last.pre = "modify_params"

\* the timer has deleted a session that was in confirm_params
C9_ExpiredWhileAwaitingConfirmation ==
    last.ev = "expiry" /\ last.out = "deleted" /\ last.pre = "confirm_params"

\* C10: the timer and an event of the user racing for one session: when a
\* handler has deleted the session, its timer is no longer pending (it never
\* fires); when the timer has deleted it, a later button press or text finds
\* no session, changes no session and no timer and starts no backend call.
C10_LoserDoesNothing ==
    [][ /\ \A t \in timers' : fate'[t.tid] # "ended"
        /\ \A u \in Users :
              (/\ ~ hasSession(sessions, u)
               /\ last'.uid = u /\ last'.ev \in {"button", "text"})
                => (/\ last'.out = "no_session"
                    /\ UNCHANGED <<sessions, timers, inflight>>)
      ]_vars

\* a handler deleted a session whose timer was pending, and no timer of the
\* user is left
C10_EventBeatTimer ==
    /\ last.ev \in {"end_session_", "cancel_create"} \cup Completing
    /\ last.armed
    /\ ~ hasSession(sessions, last.uid)
    /\ \A t \in timers : t.uid # last.uid

\* C11: deleteSession is idempotent.  In every reachable store, for every
\* user: deleting an absent session changes neither sessions nor timers;
\* deleting an existing one removes it, leaves the other sessions, and takes
\* the timer the session refers to out of the pending ones; deleting again
\* changes nothing.
C11_DeleteIdempotent ==
    \A u \in Users :
        LET d == deleteSession(sessions, timers, u)
            dd == deleteSession(d.sessions, d.timers, u)
        IN  /\ ~ hasSession(d.sessions, u)
            /\ \A v \in DOMAIN sessions \ {u} :
                  hasSession(d.sessions, v) /\ d.sessions[v] = sessions[v]
            /\ DOMAIN d.sessions \subseteq DOMAIN sessions
            /\ hasSession(sessions, u)
                  => d.timers = {t \in timers : t.tid # sessions[u].timeoutId}
            /\ ~ hasSession(sessions, u)
                  => (d.sessions = sessions /\ d.timers = timers)
            /\ dd = d

\* a timer callback has called deleteSession for a user whose session was
\* already deleted
C11_DeletedAbsent ==
    /\ last.ev = "expiry" /\ last.out = "nothing_to_delete"
    /\ ~ hasSession(sessions, last.uid)

\* C12: a button pressed by a user who has no session is answered with the
\* "session expired" message and nothing else happens: no session appears,
\* no session or timer changes, no handler is started on a backend call.
C12_ButtonWithoutSession ==
    [][ \A u \in Users :
          (/\ ~ hasSession(sessions, u) /\ phaseOf(u) = "idle"
           /\ last'.uid = u /\ last'.ev \in Buttons \cup {"button"})
            => /\ last'.ev = "button" /\ last'.out = "no_session"
               /\ sessions' = sessions /\ timers' = timers
               /\ inflight' = inflight /\ hist' = hist
      ]_vars

\* a button of the confirmation keyboard, left in the chat, was pressed
\* when the user had no session any more
C12_StaleButtonPressed ==
    /\ last.ev = "button" /\ last.out = "no_session"
    /\ KeyboardConfirm \subseteq shown[last.uid]
    /\ ~ hasSession(sessions, last.uid)

\* C13: after "end session" in any stage, or "cancel" in confirm_params, has
\* been handled, the user has no session, no timer of the user is pending
\* (so no expiry notice can follow), and no backend call was started.
C13_EndCancelsEverything ==
    (\/ last.ev = "end_session_"
     \/ last.ev = "cancel_create" /\ last.pre = "confirm_params")
        => /\ ~ hasSession(sessions, last.uid)
           /\ phaseOf(last.uid) = "idle"
           /\ \A t \in timers : t.uid # last.uid

\* C14: a session carries modifiedParams only while its stage is
\* confirm_params; in uploaded, create_task and modify_params (also after
\* "edit") modifiedParams is absent.
C14_CandidateOnlyWhileConfirming ==
    \A u \in DOMAIN sessions :
        sessions[u].modifiedParams # <<>> => sessions[u].stage = "confirm_params"

\* "edit" was handled in confirm_params and the session, back in
\* modify_params, still carries the candidate
C14_CandidateKeptAfterEdit ==
    /\ last.ev = "edit_params" /\ last.out = "template"
    /\ last.pre = "confirm_params"
    /\ stageOf(last.uid) = "modify_params"
    /\ sessions[last.uid].modifiedParams # <<>>

\* C15: from its creation to its deletion a session keeps its defaultParams,
\* fileName and fileContent: no step other than the creation of a new
\* session for the user changes them.
C15_DefaultsImmutable ==
    [][ \A u \in Users :
          (/\ hasSession(sessions, u) /\ hasSession(sessions', u)
           /\ ~ (last'.ev = "file" /\ last'.uid = u /\ last'.out = "created"))
            => /\ sessions'[u].defaultParams = sessions[u].defaultParams
               /\ sessions'[u].fileName = sessions[u].fileName
               /\ sessions'[u].fileContent = sessions[u].fileContent
      ]_vars

\* a second object was accepted after an edit round and the session still
\* has the defaultParams createSession computed from its file name
C15_DefaultsAfterEditRound ==
    /\ last.ev = "text" /\ last.out = "accepted"
    /\ Len(hist[last.uid].accepted) = 2
    /\ sessions[last.uid].defaultParams =
          [name |-> splitDotFirst(sessions[last.uid].fileName),
           command |-> S_task \o sessions[last.uid].fileName,
           schedule |-> S_dailyMidnight]

\* C16: in modify_params a brace-delimited text that does not parse as JSON
\* is answered with a rejection message (as an incomplete object is) and
\* changes no session and no timer.
C16_MalformedJsonRejected ==
    [][ (last'.ev = "text" /\ last'.pre = "modify_params"
            /\ last'.text \in MalformedTexts)
        => (last'.out = "rejected" /\ sessions' = sessions /\ timers' = timers)
      ]_vars

\* a text JSON.parse throws on was handled in modify_params: nothing was
\* sent by handleJsonParams and it returned false
C16_MalformedFellThrough ==
    /\ last.ev = "text" /\ last.pre = "modify_params"
    /\ last.text \in MalformedTexts
    /\ last.out = "parse_error" /\ ~ last.ret

\* the extension of a file name, as the claims use the word: the characters
\* after the last '.', when the name has a '.'
hasExtension(name) == \E i \in 1..Len(name) : name[i] = "."

extensionOf(name) ==
    LET i == CHOOSE j \in 1..Len(name) :
                 name[j] = "." /\ \A k \in (j + 1)..Len(name) : name[k] # "."
    IN  SubSeq(name, i + 1, Len(name))

\* C17: a document with no file name, or whose extension (compared without
\* regard to case) is not js, py, sh, ts or mjs, is rejected: no session is
\* created and the session the user has stays as it is.
C17_UnsupportedFileRejected ==
    (/\ last.ev = "file"
     /\ \/ last.text = << >>
        \/ ~ hasExtension(last.text)
        \/ toLowerCase(extensionOf(last.text)) \notin supportedExtensions)
        => /\ last.out # "created"
           /\ sessions \in IntakeStores
           /\ hasSession(sessions, last.uid) <=> last.pre # "none"

\* a document whose name has no '.' was accepted and replaced the session
\* the user had
C17_BareNameAccepted ==
    /\ last.ev = "file" /\ last.out = "created"
    /\ ~ hasExtension(last.text)
    /\ last.pre = "create_task" /\ stageOf(last.uid) = "uploaded"

\* C18: for one session, over every sequence of events, uploadScript is
\* invoked at most once and createCronJob is invoked at most once.
C18_BackendCalledOnce ==
    \A u \in DOMAIN hist : hist[u].uploads <= 1 /\ hist[u].registers <= 1

\* a button is pressed again after the session's upload failed, and
\* uploadScript is invoked a second time for the same session
C18_UploadedAgainAfterFailure ==
    /\ hasSession(sessions, last.uid)
    /\ last.out = "uploading"
    /\ hist[last.uid].uploads = 2

\* C19: sessions of different users are independent.  Whatever step is taken
\* for a user (a file, a button, a text, a backend call returning, a timer
\* of that user firing), every other user has a session after it exactly when
\* they had one before, with the same stage, parameters and timer handle, the
\* same pending timers and the same suspended handler.
C19_UsersIndependent ==
    [][ \A b \in Users \ {last'.uid} :
          /\ hasSession(sessions', b) <=> hasSession(sessions, b)
          /\ hasSession(sessions, b) => sessions'[b] = sessions[b]
          /\ {t \in timers' : t.uid = b} = {t \in timers : t.uid = b}
          /\ (b \in DOMAIN inflight') <=> (b \in DOMAIN inflight)
          /\ b \in DOMAIN inflight => inflight'[b] = inflight[b]
      ]_vars

\* a user's session has just been removed while another user has a session
\* with its timer pending
C19_RemovedBesideArmedSession ==
    /\ last.uid \in Users
    /\ last.pre # "none" /\ ~ hasSession(sessions, last.uid)
    /\ \E b \in Users \ {last.uid} :
          /\ hasSession(sessions, b)
          /\ \E t \in timers : t.uid = b /\ t.tid = sessions[b].timeoutId

\* a file name without its extension: the characters before the last '.'
withoutExtension(name) ==
    IF hasExtension(name)
    THEN SubSeq(name, 1, Len(name) - Len(extensionOf(name)) - 1)
    ELSE name

\* C20: the session createSession makes for an accepted file is in stage
\* uploaded and its defaultParams are: name, the file name without its
\* extension; command, "task " followed by the file name; schedule, what
\* extractCronFromContent finds in the file content, or "0 0 * * *" when it
\* finds nothing.
C20_CreateDefaults ==
    (last.ev = "file" /\ last.out = "created")
        => LET session == sessions[last.uid]
               cron == extractCronFromContent(session.fileContent)
           IN  /\ session.stage = "uploaded"
               /\ session.fileName = last.text
               /\ session.defaultParams.name = withoutExtension(last.text)
               /\ session.defaultParams.command = S_task \o last.text
               /\ session.defaultParams.schedule =
                      IF cron # << >> THEN cron ELSE S_dailyMidnight

\* a session was created for a file that holds a schedule other than
\* "0 0 * * *", and its default schedule is "0 0 * * *"
C20_ScheduleNotFromContent ==
    /\ last.ev = "file" /\ last.out = "created"
    /\ extractCronFromContent(sessions[last.uid].fileContent)
           \notin {<< >>, S_dailyMidnight}
    /\ sessions[last.uid].defaultParams.schedule = S_dailyMidnight

\* s is n fields separated by single spaces, each field one or more of the
\* characters 0-9 * / , -
IsFieldList(s, n) ==
    /\ s # << >>
    /\ \A i \in 1..Len(s) : s[i] \in cronChars \cup {" "}
    /\ s[1] # " " /\ s[Len(s)] # " "
    /\ \A i \in 1..(Len(s) - 1) : ~ (s[i] = " " /\ s[i + 1] = " ")
    /\ Cardinality({i \in 1..Len(s) : s[i] = " "}) = n - 1

\* the ends of the stretches of text that start at i and are n such fields
fieldListEnds(text, i, n) ==
    {j \in i..Len(text) : IsFieldList(SubSeq(text, i, j), n)}

maxOf(S) == CHOOSE j \in S : \A k \in S : k <= j

\* C21: extractCronFromContent returns nothing or exactly 5 fields separated
\* by single spaces, each made of digits, '*', '/', ',' and '-'.  At the
\* first place of the text where 5 such fields start: when 6 start there, it
\* returns them without the first; otherwise it returns the 5 as they are.
\* When no stretch of the text is 5 such fields, it returns nothing.
C21_FiveFieldsOrNothing ==
    last.ev = "cron" =>
        LET text == last.text
            starts == {i \in 1..Len(text) : fieldListEnds(text, i, 5) # {}}
            first == CHOOSE i \in starts : \A k \in starts : i <= k
            six == fieldListEnds(text, first, 6)
            firstSpace == CHOOSE j \in first..Len(text) :
                              text[j] = " " /\ \A k \in first..(j - 1) : text[k] # " "
        IN  /\ last.ret <=> last.out # << >>
            /\ last.ret => IsFieldList(last.out, 5)
            /\ starts = {} => ~ last.ret
            /\ (starts # {} /\ six # {})
                  => last.out = SubSeq(text, firstSpace + 1, maxOf(six))
            /\ (starts # {} /\ six = {})
                  => last.out = SubSeq(text, first, maxOf(fieldListEnds(text, first, 5)))

\* six fields were found after other text and the first was dropped
C21_SecondsDropped ==
    /\ last.ev = "cron" /\ last.ret
    /\ last.text = <<"a", "1", " ", "*", "/", "2", " ", "1", " ", "1", " ",
                     "1", " ", "1">>
    /\ last.out = <<"*", "/", "2", " ", "1", " ", "1", " ", "1", " ", "1">>

\* the pending timers that were armed for the session userId has now
timersOfSession(userId) ==
    {t \in timers : t.uid = userId /\ fate[t.tid] = "live"}

\* C22: however often setSessionTimeout was called for a session, at most
\* one timer armed for it is pending, and it is the one armed last (the one
\* the session refers to); the timers armed for it earlier were cleared.
C22_OnePendingExpiry ==
    \A u \in DOMAIN sessions :
        /\ Cardinality(timersOfSession(u)) <= 1
        /\ \A t \in timersOfSession(u) : t.tid = sessions[u].timeoutId
        /\ (last.uid = u /\ last.out = "armed")
              => timersOfSession(u) = {[tid |-> sessions[u].timeoutId, uid |-> u]}

\* "yes" was pressed again while the timer armed by the first press was
\* pending
C22_ArmedAgain ==
    /\ last.ev = "modify_params_yes" /\ last.out = "armed"
    /\ last.pre = "modify_params" /\ last.armed
    /\ Cardinality(timersOfSession(last.uid)) = 1

\* C23: whenever a handler has finished and the session is in stage
\* modify_params, the timer the session refers to is pending; after "yes",
\* after "edit", and when the template message could not be sent.
C23_AwaitingJsonArmed ==
    \A u \in DOMAIN sessions :
        (sessions[u].stage = "modify_params" /\ phaseOf(u) = "idle")
            => armedFor(u)

\* the template message of "yes" was rejected: the session is in
\* modify_params and no timer was armed
C23_TemplateFailedUnarmed ==
    /\ last.ev = "modify_params_yes" /\ last.out = "send_failed"
    /\ stageOf(last.uid) = "modify_params"
    /\ sessions[last.uid].timeoutId = NoTimeout
    /\ \A t \in timers : t.uid # last.uid

\* C24: handleJsonParams returns true only for a text that arrives while the
\* session is in modify_params and that, trimmed, starts with '{' and ends
\* with '}'.  For every other text (no session, another stage, another shape)
\* it returns false, and sessions and timers are as before.
C24_ConsumedOnlyJsonWhileAwaiting ==
    [][ last'.ev = "text" =>
          LET qualifies == /\ last'.pre = "modify_params"
                           /\ IsJsonShaped(trim(last'.text))
          IN  /\ last'.ret => qualifies
              /\ ~ qualifies => /\ ~ last'.ret
                               /\ sessions' = sessions
                               /\ timers' = timers
      ]_vars

\* a complete JSON object arrived while the user was asked to confirm, and
\* was not consumed
C24_JsonWhileConfirmingNotConsumed ==
    /\ last.ev = "text" /\ last.pre = "confirm_params"
    /\ last.out = "wrong_stage" /\ ~ last.ret
    /\ stageOf(last.uid) = "confirm_params"

\* the edges of the transition table: event, stage before, stage after
StageEdges ==
    { <<"create_task_", "uploaded", "create_task">>,
      <<"modify_params_yes", "create_task", "modify_params">>,
      <<"text", "modify_params", "confirm_params">>,
      <<"edit_params", "confirm_params", "modify_params">> }

\* C25: the stage of a session changes only along the edges of the
\* transition table; a button pressed in a stage other than the source stage
\* of its edge leaves the stage as it is.
C25_StageFollowsTable ==
    [][ \A u \in Users :
          (/\ hasSession(sessions, u) /\ hasSession(sessions', u)
           /\ ~ (last'.ev = "file" /\ last'.uid = u /\ last'.out = "created")
           /\ sessions'[u].stage # sessions[u].stage)
            => /\ last'.uid = u
               /\ <<last'.ev, sessions[u].stage, sessions'[u].stage>> \in StageEdges
      ]_vars

\* the "create task" button of the first message was pressed while the
\* user was asked to confirm, and the stage went back to create_task
C25_StaleCreateTaskChangedStage ==
    /\ last.ev = "create_task_" /\ last.pre = "confirm_params"
    /\ stageOf(last.uid) = "create_task"
    /\ sessions[last.uid].modifiedParams # << >>

\* the buttons that call the backend and the stage the transition table
\* lists them in
BackendSources ==
    { <<"upload_only_", "uploaded">>,
      <<"modify_params_no", "create_task">>,
      <<"confirm_params", "confirm_params">> }

\* C26: uploadFile (and with it createCronJob) is invoked only by "upload
\* only" pressed in uploaded, by "no" pressed in create_task, with
\* defaultParams, and by "confirm" pressed in confirm_params, with
\* modifiedParams; the same buttons pressed in another stage call nothing.
C26_BackendOnlyFromListedStage ==
    (last.ev \in Completing /\ last.out = "uploading")
        => /\ <<last.ev, last.pre>> \in BackendSources
           /\ last.ev = "upload_only_" => inflight[last.uid].params = << >>
           /\ last.ev = "modify_params_no"
                 => inflight[last.uid].params = <<sessions[last.uid].defaultParams>>
           /\ last.ev = "confirm_params"
                 => inflight[last.uid].params = sessions[last.uid].modifiedParams

\* "no (use defaults)" of an earlier message was pressed while the user was
\* asked to confirm their own parameters, and the upload for a job with
\* defaultParams started
C26_DefaultsRegisteredWhileConfirming ==
    /\ last.ev = "modify_params_no" /\ last.pre = "confirm_params"
    /\ last.out = "uploading"
    /\ inflight[last.uid].params = <<sessions[last.uid].defaultParams>>
    /\ sessions[last.uid].modifiedParams # << >>

\* C27: a session ends in one way only.  Once a timer has deleted the
\* session and sent the expiry notice while a completing handler was waiting
\* on a backend call, that handler neither invokes createCronJob nor reports
\* the upload or the task as done.
C27_ExpiryExcludesCompletion ==
    [][ \A u \in DOMAIN hist :
          (hist[u].noticed /\ last'.uid = u /\ last'.ev \in Completing)
            => last'.out \notin {"registering", "created", "uploaded"}
      ]_vars

\* the session expired during the upload of "confirm"; the upload returned
\* and createCronJob was invoked for the session that no longer exists
C27_RegisteringAfterNotice ==
    /\ last.ev = "confirm_params" /\ last.out = "registering"
    /\ last.pre = "none" /\ ~ hasSession(sessions, last.uid)
    /\ hist[last.uid].noticed
    /\ inflight[last.uid].phase = "registering"

=============================================================================
